---------------------------- MODULE Spec2Model ----------------------------
(***************************************************************************)
(* Kubewarden embedded admission plugin (plugin/pkg/admission/security/    *)
(* kubewarden): the policy registry held by Plugin, the startup check      *)
(* ValidateInitialization, and Plugin.Validate, which matches the          *)
(* registered policies against an admission request, invokes the waPC      *)
(* instance of every matched policy and folds the verdicts into one        *)
(* admission decision. A second specification, SpecBuild, follows the       *)
(* construction of the plugin: newPlugin over the configured policies,      *)
(* NewPolicy and DownloadWasmFromRegistry, by two API servers that share    *)
(* the configuration and the download directory.                           *)
(* SpecConcurrent runs Validate from two goroutines at once on the registry *)
(* of an initialized plugin, and SpecLoad follows newSettings over a        *)
(* configuration document, with the defaults of its policy specs and the    *)
(* download destinations of its modules.                                    *)
(*                                                                         *)
(* Strings that the code formats or parses are sequences of tokens: a      *)
(* token is either the separator "/" or a chunk without a separator.       *)
(***************************************************************************)
EXTENDS Naturals, Sequences, FiniteSets, TLC

VARIABLES
    policies,          \* Plugin.policies: the registry, in the order newPlugin appended
    client,            \* Plugin.client # nil
    recorder,          \* Plugin.recorder # nil
    initState,         \* "new", or the result of ValidateInitialization: "ok" / "failed"
    settingsCalls,     \* validate_settings invocations: the policy and the body it was sent
    validationErrors,  \* names of the policies ValidateInitialization collected an error for
    pc,                \* position of the request in flight inside Plugin.Validate
    attr,              \* admission.Attributes of the request in flight (its kind)
    j,                 \* number of policies the match loop has gone through
    relevantPolicies,  \* Validate's relevantPolicies
    versionedAttrs,    \* keys of Validate's versionedAttrs map
    conversions,       \* kinds handed to generic.NewVersionedAttributes, in call order
    hooks,             \* what Webhook.ShouldCallHook returned, policy by policy
    i,                 \* number of iterations the evaluation loop has finished
    calls,             \* Policy.Validate invocations of this request, in call order
    marshalErr,        \* json.Marshal of the last ValidationRequest returned an error
    lastResult,        \* what the last instance.Invoke returned: its (data, err)
    events,            \* events handed to the recorder for this request
    decision,          \* what Validate returned
    settings,          \* settings.Policies as newSettings read it: name -> module reference
    files,             \* the files of PoliciesDownloadDir: path -> what the file holds
    build,             \* the newPlugin calls under way, one per controller
    inflight,          \* the Validate calls under way at the same time, one per goroutine
    loading            \* the configuration newSettings is reading, and what came of it

vars == <<policies, client, recorder, initState, settingsCalls, validationErrors,
          pc, attr, j, relevantPolicies, versionedAttrs, conversions, i, calls,
          marshalErr, lastResult, events, decision, settings, files, build,
          hooks, inflight, loading>>

-----------------------------------------------------------------------------
(* Bounds *)

MaxPolicies == 2

AllNames == <<"alpha", "beta", "gamma", "delta">>

PolicyNames == {AllNames[n] : n \in 1..MaxPolicies}

-----------------------------------------------------------------------------
(* settings.go *)

PolicyModeProtect == "protect"
PolicyModeMonitor == "monitor"

PolicyModes == {PolicyModeProtect, PolicyModeMonitor}

FailurePolicyTypes == {"Fail", "Ignore"}

\* The settings document of a policy: an opaque document, one per policy.
SettingsOf(name) == <<"settings-of", name>>

\* The policy specs of the configuration documents, after Defaults: the
\* default one, one in monitor mode and one that ignores failures.
PolicySpec ==
    {[Mode |-> PolicyModeProtect, FailurePolicy |-> "Fail"],
     [Mode |-> PolicyModeMonitor, FailurePolicy |-> "Fail"],
     [Mode |-> PolicyModeProtect, FailurePolicy |-> "Ignore"]}

\* The AdmissionReviewVersions validatingWebhookAccessor gives every hook.
AdmissionReviewVersions == <<"v1", "v1beta">>

\* NewPolicy: the live binding of a name and its spec. The hook is built from
\* the spec at once; Mode, FailurePolicy and Settings are what a later read
\* through the pointer Policy.Spec yields, the fields of the spec it points to
\* then. Its instance is the one this call's module.Instantiate made.
NewPolicy(name, spec, instance) ==
    [Name |-> name,
     Instance |-> instance,
     Mode |-> spec.Mode,
     FailurePolicy |-> spec.FailurePolicy,
     Settings |-> spec.Settings,
     AdmissionReviewVersions |-> AdmissionReviewVersions]

-----------------------------------------------------------------------------
(* Kinds: schema.GroupVersionKind, group and version as token sequences *)

GVK(g, v, k) == [Group |-> g, Version |-> v, Kind |-> k]

PodV1 == GVK(<<>>, <<"v1">>, "Pod")
DeploymentV1 == GVK(<<"apps">>, <<"v1">>, "Deployment")
DeploymentV1beta1 == GVK(<<"apps">>, <<"v1beta1">>, "Deployment")

Kinds == {PodV1, DeploymentV1, DeploymentV1beta1}

\* The kinds of the requests the host delivers.
RequestKinds == {PodV1, DeploymentV1beta1}

\* The kinds a hook may ask for when it matches a request of kind k: k itself
\* (an exact match) or an equivalent kind of another version (matchPolicy
\* Equivalent).
EquivalentKinds(k) == {e \in Kinds : e.Group = k.Group /\ e.Kind = k.Kind}

\* fmt.Sprintf("%s/%s", group, version)
SprintfGroupVersion(g, v) == g \o <<"/">> \o v

\* The position of the first "/" of a token sequence holding one.
IndexSlash(gv) == CHOOSE n \in 1..Len(gv) : gv[n] = "/" /\ \A m \in 1..(n - 1) : gv[m] # "/"

\* schema.ParseGroupVersion, which the event recorder applies to the
\* apiVersion of the object an event is about.
ParseGroupVersion(gv) ==
    LET slashes == Cardinality({n \in 1..Len(gv) : gv[n] = "/"})
    IN  IF gv = <<>> \/ gv = <<"/">>
        THEN [ok |-> TRUE, Group |-> <<>>, Version |-> <<>>]
        ELSE IF slashes = 0
        THEN [ok |-> TRUE, Group |-> <<>>, Version |-> gv]
        ELSE IF slashes = 1
        THEN [ok |-> TRUE,
              Group |-> SubSeq(gv, 1, IndexSlash(gv) - 1),
              Version |-> SubSeq(gv, IndexSlash(gv) + 1, Len(gv))]
        ELSE [ok |-> FALSE, Group |-> <<>>, Version |-> <<>>]

-----------------------------------------------------------------------------
(* kw_protocol_types.go: the bytes a module returns and their decoding *)

Absent == [t |-> "absent"]
JNull == [t |-> "null"]
JBool(b) == [t |-> "bool", b |-> b]
JString(s) == [t |-> "string", s |-> s]
JNumber(n) == [t |-> "number", n |-> n]

Messages == {"no privileged pods"}
Codes == {400, 403}

AcceptedValues == {Absent, JNull, JBool(TRUE), JBool(FALSE), JString("true")}
MessageValues == {Absent} \cup {JString(m) : m \in Messages}
CodeValues == {Absent} \cup {JNumber(c) : c \in Codes}

\* No bytes at all: what Invoke returns beside an error.
NilData ==
    [form |-> "nil", accepted |-> Absent, message |-> Absent, code |-> Absent,
     mutated_object |-> Absent]

\* Bytes that are no JSON text.
InvalidData == [NilData EXCEPT !.form = "invalid"]

\* The JSON text null.
NullData == [NilData EXCEPT !.form = "null"]

\* JSON objects: a boolean accepted with every combination of message and
\* code, an accepted that is missing, null or a string, and full responses that
\* carry a mutated object and a code of the wrong type.
ObjectData ==
    [form : {"object"}, accepted : {JBool(TRUE), JBool(FALSE)}, message : MessageValues,
     code : CodeValues, mutated_object : {Absent}]
        \cup [form : {"object"}, accepted : AcceptedValues, message : MessageValues,
              code : {Absent}, mutated_object : {Absent}]
        \cup [form : {"object"}, accepted : {JBool(TRUE), JBool(FALSE)},
              message : {JString(m) : m \in Messages}, code : {JNumber(400), JString("403")},
              mutated_object : {JString("object")}]

ResponseData == {InvalidData, NullData} \cup ObjectData

\* ValidationResponse{}
ZeroValidationResponse ==
    [Accepted |-> FALSE, Message |-> "", Code |-> 0, MutatedObject |-> ""]

\* An error value is the token sequence of its text; nil is the empty one.
NoError == <<>>

\* encoding/json on one struct field: an absent key and a null leave the field
\* alone, a value of another JSON type is an UnmarshalTypeError.
TypeMismatch(value, want) == value.t \notin {"absent", "null", want}

UnmarshalTypeError(value, field, type) ==
    <<"json: cannot unmarshal ", value.t, " into Go struct field ValidationResponse.",
      field, " of type ", type>>

\* NewValidationResponse: json.Unmarshal into a zero ValidationResponse.
NewValidationResponse(data) ==
    IF data.form \in {"nil", "invalid"}
    THEN [vr |-> ZeroValidationResponse, err |-> <<"invalid character in JSON input">>]
    ELSE IF data.form = "null"
    THEN [vr |-> ZeroValidationResponse, err |-> NoError]
    ELSE [vr |->
            [Accepted |-> IF data.accepted.t = "bool" THEN data.accepted.b ELSE FALSE,
             Message |-> IF data.message.t = "string" THEN data.message.s ELSE "",
             Code |-> IF data.code.t = "number" THEN data.code.n ELSE 0,
             MutatedObject |->
                 IF data.mutated_object.t = "string" THEN data.mutated_object.s ELSE ""],
          err |->
            IF TypeMismatch(data.accepted, "bool")
            THEN UnmarshalTypeError(data.accepted, "accepted", "bool")
            ELSE IF TypeMismatch(data.message, "string")
            THEN UnmarshalTypeError(data.message, "message", "string")
            ELSE IF TypeMismatch(data.code, "number")
            THEN UnmarshalTypeError(data.code, "code", "int")
            ELSE IF TypeMismatch(data.mutated_object, "string")
            THEN UnmarshalTypeError(data.mutated_object, "mutated_object", "string")
            ELSE NoError]

-----------------------------------------------------------------------------
(* policy.go: Policy.Validate over what instance.Invoke returned *)

Faults == {"wasm trap", "export not found"}

\* What instance.Invoke can return: an error without data, or data.
InvokeResults ==
    [err : {TRUE}, fault : Faults, data : {NilData}]
        \cup [err : {FALSE}, fault : {""}, data : ResponseData]

\* No invocation yet.
NoResult == [err |-> FALSE, fault |-> "", data |-> NilData]

\* string(data) in an error text.
DataString(data) == IF data.form = "nil" THEN "" ELSE data.form

\* Policy.Validate
PolicyValidate(p, result) ==
    IF result.err
    THEN [vr |-> ZeroValidationResponse,
          err |-> <<"[policy ", p.Name, "] - cannot decode validation response: ",
                    DataString(result.data), ": ", result.fault>>]
    ELSE NewValidationResponse(result.data)

\* What a test double of the module sees of one invocation's return value,
\* read off the raw (data, err) pair.
Observe(result) ==
    IF result.err THEN "fault"
    ELSE IF result.data.form \in {"nil", "invalid"} THEN "malformed"
    ELSE IF result.data.form = "null" THEN "no accepted"
    ELSE IF \/ result.data.accepted.t \notin {"absent", "null", "bool"}
            \/ result.data.message.t \notin {"absent", "null", "string"}
            \/ result.data.code.t \notin {"absent", "null", "number"}
            \/ result.data.mutated_object.t \notin {"absent", "null", "string"}
         THEN "malformed"
    ELSE IF result.data.accepted.t # "bool" THEN "no accepted"
    ELSE IF result.data.accepted.b THEN "accepted"
    ELSE "rejected"

-----------------------------------------------------------------------------
(* Errors and decisions *)

\* errors.Wrap / errors.Wrapf
Wrap(err, text) == text \o <<": ">> \o err

\* Validate returned nil.
Allowed == [status |-> "Allowed", reason |-> "", code |-> 0, message |-> <<>>]

\* Validate has not returned.
Pending == [status |-> "Pending", reason |-> "", code |-> 0, message |-> <<>>]

\* The *StatusError ShouldCallHook returns, handed back as it is.
StatusError ==
    [status |-> "Rejected", reason |-> "StatusError", code |-> 500,
     message |-> <<"hook could not be matched">>]

\* apierrors.NewInternalError
NewInternalError(err) ==
    [status |-> "Rejected", reason |-> "InternalError", code |-> 500,
     message |-> <<"Internal error occurred: ">> \o err]

\* admission.NewForbidden
NewForbidden(a, err) ==
    [status |-> "Rejected", reason |-> "Forbidden", code |-> 403,
     message |-> <<a.Kind.Kind, " is forbidden: ">> \o err]

\* The nil recorder dereferenced: the request ends in a panic.
Panic == [status |-> "Panic", reason |-> "", code |-> 0, message |-> <<>>]

\* rejectAndLog
rejectAndLog(a, err) == NewForbidden(a, err)

\* webhookrequest.CreateAdmissionObjects: the first AdmissionReview version of
\* the hook's list that is a known one decides the type of the request.
KnownReviewVersions == {"v1", "v1beta1"}

CreateAdmissionObjects(kind, versions) ==
    LET known == {n \in 1..Len(versions) : versions[n] \in KnownReviewVersions}
    IN  IF known = {}
        THEN [err |-> <<"webhook does not accept known AdmissionReview versions">>,
              review |-> "", Kind |-> kind]
        ELSE [err |-> NoError,
              review |-> versions[CHOOSE n \in known : \A m \in known : n <= m],
              Kind |-> kind]

\* The ValidationRequest Validate builds in its type switch and marshals.
kubewardenValidationRequest(created, policy, marshalFails) ==
    IF created.review \in {"v1", "v1beta1"}
    THEN [err |-> IF marshalFails THEN <<"json: unsupported value">> ELSE NoError,
          objKind |-> created.Kind.Kind,
          objApiVersion |-> SprintfGroupVersion(created.Kind.Group, created.Kind.Version),
          request |-> [review |-> created.review, Kind |-> created.Kind],
          settings |-> policy.Settings]
    ELSE [err |-> <<"Unknonw admission review type">>,
          objKind |-> "", objApiVersion |-> <<>>,
          request |-> [review |-> created.review, Kind |-> created.Kind],
          settings |-> policy.Settings]

\* Verdict with the failure policy of settings.go applied: an error of a policy
\* whose failurePolicy is Ignore lets the request go on.
VerdictIgnoringFailures(a, policy, req, response, hasRecorder) ==
    IF response.err # NoError
    THEN IF policy.FailurePolicy = "Ignore"
         THEN [decision |-> Pending, events |-> <<>>]
         ELSE [decision |-> rejectAndLog(a,
                               Wrap(response.err, <<"Error evaluating Wasm policy ", policy.Name>>)),
               events |-> <<>>]
    ELSE IF ~response.vr.Accepted
    THEN [decision |-> rejectAndLog(a,
                          <<"Kubewarden policy ", policy.Name, " rejection: ",
                            response.vr.Message>>),
          events |-> <<[apiVersion |-> req.objApiVersion,
                        kind |-> req.objKind,
                        type |-> "Warning",
                        reason |-> "ValidationRejection",
                        message |-> <<policy.Name, ": ", response.vr.Message>>]>>]
    ELSE [decision |-> Pending, events |-> <<>>]

\* Verdict with the test of Accepted the wrong way round.
VerdictInverted(a, policy, req, response, hasRecorder) ==
    IF response.err # NoError
    THEN [decision |-> rejectAndLog(a,
                          Wrap(response.err, <<"Error evaluating Wasm policy ", policy.Name>>)),
          events |-> <<>>]
    ELSE IF response.vr.Accepted
    THEN [decision |-> rejectAndLog(a,
                          <<"Kubewarden policy ", policy.Name, " rejection: ",
                            response.vr.Message>>),
          events |-> <<>>]
    ELSE [decision |-> Pending, events |-> <<>>]

\* Verdict without the call of the recorder, as in admission.go.
VerdictWithoutEvent(a, policy, req, response, hasRecorder) ==
    IF response.err # NoError
    THEN [decision |-> rejectAndLog(a,
                          Wrap(response.err, <<"Error evaluating Wasm policy ", policy.Name>>)),
          events |-> <<>>]
    ELSE IF ~response.vr.Accepted
    THEN [decision |-> rejectAndLog(a,
                          <<"Kubewarden policy ", policy.Name, " rejection: ",
                            response.vr.Message>>),
          events |-> <<>>]
    ELSE [decision |-> Pending, events |-> <<>>]

\* Validate's handling of what policy.Validate returned for one matched policy:
\* the decision it returns now ("Pending": go on with the next policy) and the
\* events it hands to the recorder.
Verdict(a, policy, req, response, hasRecorder) ==
    IF response.err # NoError
    THEN [decision |-> rejectAndLog(a,
                          Wrap(response.err, <<"Error evaluating Wasm policy ", policy.Name>>)),
          events |-> <<>>]
    ELSE IF ~response.vr.Accepted
    THEN IF hasRecorder
         THEN [decision |-> rejectAndLog(a,
                               <<"Kubewarden policy ", policy.Name, " rejection: ",
                                 response.vr.Message>>),
               events |-> <<[apiVersion |-> req.objApiVersion,
                             kind |-> req.objKind,
                             type |-> "Warning",
                             reason |-> "ValidationRejection",
                             message |-> <<policy.Name, ": ", response.vr.Message>>]>>]
         ELSE [decision |-> Panic, events |-> <<>>]
    ELSE [decision |-> Pending, events |-> <<>>]

-----------------------------------------------------------------------------
(* The registry: newPlugin *)

Orders(S) ==
    {order \in [1..Cardinality(S) -> S] :
        \A m, n \in 1..Cardinality(S) : order[m] = order[n] => m = n}

\* The entry of a policy in settings.Policies: its spec with its own settings
\* document.
ConfiguredSpec(settingsPolicies, name) ==
    [Mode |-> settingsPolicies[name].Mode,
     FailurePolicy |-> settingsPolicies[name].FailurePolicy,
     Settings |-> SettingsOf(name)]

\* What the range clause of newPlugin declares: before Go 1.22 one variable
\* policySpec for the whole loop, from Go 1.22 on a new one per iteration.
LoopVarSemantics == {"per-loop", "per-iteration"}

\* module.Instantiate: every call makes a new instance; they are told apart
\* by the number of the call.
Instantiate(n) == <<"instance", n>>

\* newPlugin handing every policy the instance of the first module.
newPluginSharedInstance(settingsPolicies, order, loopVar) ==
    [n \in 1..Len(order) |->
        NewPolicy(order[n],
                  ConfiguredSpec(settingsPolicies,
                                 IF loopVar = "per-loop" THEN order[Len(order)]
                                 ELSE order[n]),
                  Instantiate(1))]

\* newPlugin: one Policy per entry of settings.Policies, appended in the order
\* the iteration over the map yields them. Every Policy keeps &policySpec: with
\* one variable per loop all of them point to the same variable, which holds
\* the spec of the last entry once the loop is over.
newPlugin(settingsPolicies, order, loopVar) ==
    [n \in 1..Len(order) |->
        NewPolicy(order[n],
                  ConfiguredSpec(settingsPolicies,
                                 IF loopVar = "per-loop" THEN order[Len(order)]
                                 ELSE order[n]),
                  Instantiate(n))]

Init ==
    /\ \E n \in 0..MaxPolicies :
         \E settingsPolicies \in [{AllNames[m] : m \in 1..n} -> PolicySpec] :
           \E order \in Orders(DOMAIN settingsPolicies), loopVar \in LoopVarSemantics :
             policies = newPlugin(settingsPolicies, order, loopVar)
    /\ client = FALSE
    /\ recorder = FALSE
    /\ initState = "new"
    /\ settingsCalls = <<>>
    /\ validationErrors = <<>>
    /\ pc = "idle"
    /\ attr = [Kind |-> PodV1]
    /\ j = 0
    /\ relevantPolicies = <<>>
    /\ versionedAttrs = {}
    /\ conversions = <<>>
    /\ i = 0
    /\ calls = <<>>
    /\ marshalErr = FALSE
    /\ lastResult = NoResult
    /\ events = <<>>
    /\ decision = Pending
    /\ settings = <<>>
    /\ files = <<>>
    /\ build = <<>>
    /\ hooks = <<>>
    /\ inflight = <<>>
    /\ loading = <<>>

\* What the goroutines of concurrent requests and the loading of the
\* configuration work on.
otherVars == <<inflight, loading>>

\* What newPlugin works on: the configuration, the download directory and the
\* calls under way.
buildVars == <<settings, files, build, otherVars>>

requestVars ==
    <<pc, attr, j, relevantPolicies, versionedAttrs, conversions, i, calls,
      marshalErr, lastResult, events, decision, hooks>>

-----------------------------------------------------------------------------
(* Startup *)

SetExternalKubeClientSet ==
    /\ ~client
    /\ client' = TRUE
    /\ recorder' = TRUE
    /\ UNCHANGED <<policies, initState, settingsCalls, validationErrors, requestVars,
                   buildVars>>

\* What validate_settings can come to for one policy: Policy.ValidateSettings
\* returned an error, or a SettingsValidationResponse with this Valid.
SettingsOutcomes == {"error", "valid", "not valid"}

\* ValidateInitialization logging the failures it collected and returning nil.
ValidateInitializationIgnoringErrors ==
    /\ initState = "new"
    /\ IF ~client
       THEN /\ initState' = "failed"
            /\ UNCHANGED <<settingsCalls, validationErrors>>
       ELSE \E outcome \in [1..Len(policies) -> SettingsOutcomes] :
              /\ settingsCalls' =
                    [n \in 1..Len(policies) |->
                        [policy |-> policies[n].Name, settings |-> policies[n].Settings,
                         instance |-> policies[n].Instance,
                         returned |-> outcome[n]]]
              /\ validationErrors' =
                    SelectSeq([n \in 1..Len(policies) |->
                                  [policy |-> policies[n].Name, outcome |-> outcome[n]]],
                              LAMBDA e : e.outcome # "valid")
              /\ initState' = "ok"
    /\ UNCHANGED <<policies, client, recorder, requestVars, buildVars>>

\* ValidateInitialization giving up at the first policy whose settings do not
\* validate.
ValidateInitializationFirstFailure ==
    /\ initState = "new"
    /\ IF ~client
       THEN /\ initState' = "failed"
            /\ UNCHANGED <<settingsCalls, validationErrors>>
       ELSE \E outcome \in [1..Len(policies) -> SettingsOutcomes] :
              LET bad == {n \in 1..Len(policies) : outcome[n] # "valid"}
                  last == IF bad = {} THEN Len(policies)
                          ELSE CHOOSE n \in bad : \A m \in bad : n <= m
              IN  /\ settingsCalls' =
                        [n \in 1..last |->
                            [policy |-> policies[n].Name, settings |-> policies[n].Settings,
                             instance |-> policies[n].Instance,
                             returned |-> outcome[n]]]
                  /\ validationErrors' =
                        IF bad = {} THEN <<>>
                        ELSE <<[policy |-> policies[last].Name, outcome |-> outcome[last]]>>
                  /\ initState' = IF bad # {} THEN "failed" ELSE "ok"
    /\ UNCHANGED <<policies, client, recorder, requestVars, buildVars>>

ValidateInitialization ==
    /\ initState = "new"
    /\ IF ~client
       THEN /\ initState' = "failed"
            /\ UNCHANGED <<settingsCalls, validationErrors>>
       ELSE \E outcome \in [1..Len(policies) -> SettingsOutcomes] :
              LET errs == SelectSeq([n \in 1..Len(policies) |->
                                        [policy |-> policies[n].Name, outcome |-> outcome[n]]],
                                  LAMBDA e : e.outcome # "valid")
              IN  /\ settingsCalls' =
                        [n \in 1..Len(policies) |->
                            [policy |-> policies[n].Name, settings |-> policies[n].Settings,
                             instance |-> policies[n].Instance,
                             returned |-> outcome[n]]]
                  /\ validationErrors' = errs
                  /\ initState' = IF Len(errs) > 0 THEN "failed" ELSE "ok"
    /\ UNCHANGED <<policies, client, recorder, requestVars, buildVars>>

-----------------------------------------------------------------------------
(* Plugin.Validate *)

regVars ==
    <<policies, client, recorder, initState, settingsCalls, validationErrors, buildVars>>

\* What Webhook.ShouldCallHook can return for a hook and a request of kind k:
\* no invocation, an invocation for a kind equivalent to k, or a status error.
HookResults(k) ==
    {[match |-> "nil", Kind |-> k], [match |-> "error", Kind |-> k]}
        \cup {[match |-> "invocation", Kind |-> e] : e \in EquivalentKinds(k)}

\* The host hands a request to Validate.
ValidateBegin(a) ==
    /\ pc \in {"idle", "done"}
    /\ pc' = "match"
    /\ attr' = a
    /\ j' = 0
    /\ relevantPolicies' = <<>>
    /\ versionedAttrs' = {}
    /\ conversions' = <<>>
    /\ hooks' = <<>>
    /\ i' = 0
    /\ calls' = <<>>
    /\ marshalErr' = FALSE
    /\ lastResult' = NoResult
    /\ events' = <<>>
    /\ decision' = Pending
    /\ UNCHANGED regVars

\* ValidateMatch without the lookup in versionedAttrs: a conversion for every
\* matched policy.
ValidateMatchConvertingEach ==
    /\ pc = "match"
    /\ j < Len(policies)
    /\ \E hook \in HookResults(attr.Kind), converted \in BOOLEAN :
         /\ hooks' = Append(hooks, hook.match)
         /\ IF hook.match = "error"
            THEN /\ decision' = StatusError
                 /\ pc' = "done"
                 /\ UNCHANGED <<j, relevantPolicies, versionedAttrs, conversions>>
            ELSE IF hook.match = "nil"
            THEN /\ j' = j + 1
                 /\ UNCHANGED <<pc, decision, relevantPolicies, versionedAttrs, conversions>>
            ELSE /\ relevantPolicies' =
                       Append(relevantPolicies, [policy |-> j + 1, Kind |-> hook.Kind])
                 /\ IF FALSE
                    THEN /\ j' = j + 1
                         /\ UNCHANGED <<pc, decision, versionedAttrs, conversions>>
                    ELSE /\ conversions' = Append(conversions, hook.Kind)
                         /\ IF converted
                            THEN /\ versionedAttrs' = versionedAttrs \cup {hook.Kind}
                                 /\ j' = j + 1
                                 /\ UNCHANGED <<pc, decision>>
                            ELSE /\ decision' = NewInternalError(<<"conversion failed">>)
                                 /\ pc' = "done"
                                 /\ UNCHANGED <<j, versionedAttrs>>
    /\ UNCHANGED <<regVars, attr, i, calls, marshalErr, lastResult, events>>

\* ValidateMatch putting a matched policy in front of the ones matched before.
ValidateMatchPrepending ==
    /\ pc = "match"
    /\ j < Len(policies)
    /\ \E hook \in HookResults(attr.Kind), converted \in BOOLEAN :
         /\ hooks' = Append(hooks, hook.match)
         /\ IF hook.match = "error"
            THEN /\ decision' = StatusError
                 /\ pc' = "done"
                 /\ UNCHANGED <<j, relevantPolicies, versionedAttrs, conversions>>
            ELSE IF hook.match = "nil"
            THEN /\ j' = j + 1
                 /\ UNCHANGED <<pc, decision, relevantPolicies, versionedAttrs, conversions>>
            ELSE /\ relevantPolicies' =
                       <<[policy |-> j + 1, Kind |-> hook.Kind]>> \o relevantPolicies
                 /\ IF hook.Kind \in versionedAttrs
                    THEN /\ j' = j + 1
                         /\ UNCHANGED <<pc, decision, versionedAttrs, conversions>>
                    ELSE /\ conversions' = Append(conversions, hook.Kind)
                         /\ IF converted
                            THEN /\ versionedAttrs' = versionedAttrs \cup {hook.Kind}
                                 /\ j' = j + 1
                                 /\ UNCHANGED <<pc, decision>>
                            ELSE /\ decision' = NewInternalError(<<"conversion failed">>)
                                 /\ pc' = "done"
                                 /\ UNCHANGED <<j, versionedAttrs>>
    /\ UNCHANGED <<regVars, attr, i, calls, marshalErr, lastResult, events>>

\* ValidateMatch leaving the loop at the first policy that matched, for the
\* evaluation of what matched so far.
ValidateMatchEvaluatingAtOnce ==
    /\ pc = "match"
    /\ j < Len(policies)
    /\ \E hook \in HookResults(attr.Kind), converted \in BOOLEAN :
         /\ hooks' = Append(hooks, hook.match)
         /\ IF hook.match = "error"
            THEN /\ decision' = StatusError
                 /\ pc' = "done"
                 /\ UNCHANGED <<j, relevantPolicies, versionedAttrs, conversions>>
            ELSE IF hook.match = "nil"
            THEN /\ j' = j + 1
                 /\ UNCHANGED <<pc, decision, relevantPolicies, versionedAttrs, conversions>>
            ELSE /\ relevantPolicies' =
                       Append(relevantPolicies, [policy |-> j + 1, Kind |-> hook.Kind])
                 /\ IF hook.Kind \in versionedAttrs
                    THEN /\ j' = j + 1
                         /\ UNCHANGED <<pc, decision, versionedAttrs, conversions>>
                    ELSE /\ conversions' = Append(conversions, hook.Kind)
                         /\ IF converted
                            THEN /\ versionedAttrs' = versionedAttrs \cup {hook.Kind}
                                 /\ j' = j + 1
                                 /\ pc' = "eval"
                                 /\ UNCHANGED decision
                            ELSE /\ decision' = NewInternalError(<<"conversion failed">>)
                                 /\ pc' = "done"
                                 /\ UNCHANGED <<j, versionedAttrs>>
    /\ UNCHANGED <<regVars, attr, i, calls, marshalErr, lastResult, events>>

\* ValidateMatch without the continue for a hook that does not match: every
\* policy whose match check raised no error is kept for the evaluation.
ValidateMatchKeepingAll ==
    /\ pc = "match"
    /\ j < Len(policies)
    /\ \E hook \in HookResults(attr.Kind), converted \in BOOLEAN :
         /\ hooks' = Append(hooks, hook.match)
         /\ IF hook.match = "error"
            THEN /\ decision' = StatusError
                 /\ pc' = "done"
                 /\ UNCHANGED <<j, relevantPolicies, versionedAttrs, conversions>>
            ELSE IF FALSE
            THEN /\ j' = j + 1
                 /\ UNCHANGED <<pc, decision, relevantPolicies, versionedAttrs, conversions>>
            ELSE /\ relevantPolicies' =
                       Append(relevantPolicies, [policy |-> j + 1, Kind |-> hook.Kind])
                 /\ IF hook.Kind \in versionedAttrs
                    THEN /\ j' = j + 1
                         /\ UNCHANGED <<pc, decision, versionedAttrs, conversions>>
                    ELSE /\ conversions' = Append(conversions, hook.Kind)
                         /\ IF converted
                            THEN /\ versionedAttrs' = versionedAttrs \cup {hook.Kind}
                                 /\ j' = j + 1
                                 /\ UNCHANGED <<pc, decision>>
                            ELSE /\ decision' = NewInternalError(<<"conversion failed">>)
                                 /\ pc' = "done"
                                 /\ UNCHANGED <<j, versionedAttrs>>
    /\ UNCHANGED <<regVars, attr, i, calls, marshalErr, lastResult, events>>

\* One iteration of the loop over p.policies.
ValidateMatch ==
    /\ pc = "match"
    /\ j < Len(policies)
    /\ \E hook \in HookResults(attr.Kind), converted \in BOOLEAN :
         /\ hooks' = Append(hooks, hook.match)
         /\ IF hook.match = "error"
            THEN /\ decision' = StatusError
                 /\ pc' = "done"
                 /\ UNCHANGED <<j, relevantPolicies, versionedAttrs, conversions>>
            ELSE IF hook.match = "nil"
            THEN /\ j' = j + 1
                 /\ UNCHANGED <<pc, decision, relevantPolicies, versionedAttrs, conversions>>
            ELSE /\ relevantPolicies' =
                       Append(relevantPolicies, [policy |-> j + 1, Kind |-> hook.Kind])
                 /\ IF hook.Kind \in versionedAttrs
                    THEN /\ j' = j + 1
                         /\ UNCHANGED <<pc, decision, versionedAttrs, conversions>>
                    ELSE /\ conversions' = Append(conversions, hook.Kind)
                         /\ IF converted
                            THEN /\ versionedAttrs' = versionedAttrs \cup {hook.Kind}
                                 /\ j' = j + 1
                                 /\ UNCHANGED <<pc, decision>>
                            ELSE /\ decision' = NewInternalError(<<"conversion failed">>)
                                 /\ pc' = "done"
                                 /\ UNCHANGED <<j, versionedAttrs>>
    /\ UNCHANGED <<regVars, attr, i, calls, marshalErr, lastResult, events>>

\* ValidateMatched denying a request that no policy matched.
ValidateMatchedDenying ==
    /\ pc = "match"
    /\ j = Len(policies)
    /\ IF Len(relevantPolicies) = 0
       THEN /\ decision' = NewForbidden(attr, <<"no policy matched">>)
            /\ pc' = "done"
       ELSE /\ pc' = "eval"
            /\ UNCHANGED decision
    /\ UNCHANGED <<regVars, attr, j, relevantPolicies, versionedAttrs, conversions, hooks,
                   i, calls, marshalErr, lastResult, events>>

\* ValidateMatched writing the default mode into the spec of every policy on
\* its way to the evaluation.
ValidateMatchedDefaulting ==
    /\ pc = "match"
    /\ j = Len(policies)
    /\ IF Len(relevantPolicies) = 0
       THEN /\ decision' = Allowed
            /\ pc' = "done"
       ELSE /\ pc' = "eval"
            /\ UNCHANGED decision
    /\ policies' = [n \in 1..Len(policies) |-> [policies[n] EXCEPT !.Mode = PolicyModeProtect]]
    /\ UNCHANGED <<client, recorder, initState, settingsCalls, validationErrors, buildVars,
                   attr, j, relevantPolicies, versionedAttrs, conversions, hooks,
                   i, calls, marshalErr, lastResult, events>>

\* The loop over p.policies is over.
ValidateMatched ==
    /\ pc = "match"
    /\ j = Len(policies)
    /\ IF Len(relevantPolicies) = 0
       THEN /\ decision' = Allowed
            /\ pc' = "done"
       ELSE /\ pc' = "eval"
            /\ UNCHANGED decision
    /\ UNCHANGED <<regVars, attr, j, relevantPolicies, versionedAttrs, conversions, hooks,
                   i, calls, marshalErr, lastResult, events>>

\* AfterIteration without the return inside the loop: a rejection is only
\* looked at once the loop is over.
AfterIterationWithoutReturn(n, verdict) ==
    IF n = Len(relevantPolicies)
    THEN IF verdict.decision.status # "Pending" THEN verdict.decision ELSE Allowed
    ELSE Pending

\* AfterIteration without the return nil that follows the loop.
AfterIterationWithoutEnd(n, verdict) ==
    IF verdict.decision.status # "Pending" THEN verdict.decision ELSE Pending

\* The decision after iteration n of the loop over relevantPolicies went
\* through: the loop's end returns nil.
AfterIteration(n, verdict) ==
    IF verdict.decision.status # "Pending" THEN verdict.decision
    ELSE IF n = Len(relevantPolicies) THEN Allowed
    ELSE Pending

\* One iteration of the loop over relevantPolicies.
ValidateEvaluate ==
    /\ pc = "eval"
    /\ i < Len(relevantPolicies)
    /\ LET relevantPolicy == relevantPolicies[i + 1]
           policy == policies[relevantPolicy.policy]
           created == CreateAdmissionObjects(relevantPolicy.Kind,
                                             policy.AdmissionReviewVersions)
       IN  IF created.err # NoError
           THEN /\ decision' = NewInternalError(created.err)
                /\ pc' = "done"
                /\ UNCHANGED <<i, calls, marshalErr, lastResult, events>>
           ELSE \E marshalFails \in BOOLEAN, result \in InvokeResults :
                  LET req == kubewardenValidationRequest(created, policy, marshalFails)
                      verdict == Verdict(attr, policy, req,
                                         PolicyValidate(policy, result), recorder)
                      after == AfterIteration(i + 1, verdict)
                  IN  IF req.err # NoError
                      THEN /\ marshalErr' = TRUE
                           /\ decision' = rejectAndLog(attr,
                                  Wrap(req.err, <<"Cannot serialize kubewarden ValidationRequest">>))
                           /\ pc' = "done"
                           /\ UNCHANGED <<i, calls, lastResult, events>>
                      ELSE /\ calls' = Append(calls,
                                  [policy |-> policy.Name,
                                   request |-> req.request,
                                   settings |-> req.settings,
                                   instance |-> policy.Instance,
                                   returned |-> Observe(result)])
                           /\ lastResult' = result
                           /\ events' = events \o verdict.events
                           /\ decision' = after
                           /\ i' = IF after.status = "Pending" \/ after = Allowed
                                   THEN i + 1 ELSE i
                           /\ pc' = IF after.status = "Pending" THEN "eval" ELSE "done"
                           /\ UNCHANGED marshalErr
    /\ UNCHANGED <<regVars, attr, j, relevantPolicies, versionedAttrs, conversions, hooks>>

\* The host accepts the controller as initialized: ValidateInitialization
\* was called and returned no error.
Initialized == initState = "ok"

\* The admission chain hands requests to Validate once it has accepted the
\* controller as initialized.
Admit == Initialized /\ \E a \in [Kind : RequestKinds] : ValidateBegin(a)

Next ==
    \/ SetExternalKubeClientSet
    \/ ValidateInitialization
    \/ Admit
    \/ ValidateMatch
    \/ ValidateMatched
    \/ ValidateEvaluate

Spec == Init /\ [][Next]_vars

-----------------------------------------------------------------------------
(* buildDownloadDestination: references and paths as token sequences *)

\* os.PathSeparator of the platforms the API server is built for.
PathSeparator == "/"

\* strings.ReplaceAll on tokens.
ReplaceAll(str, old, new) == [n \in 1..Len(str) |-> IF str[n] = old THEN new ELSE str[n]]

\* The elements of a path: the runs of tokens between separators, empty ones
\* included.
RECURSIVE SplitPath(_)
SplitPath(path) ==
    IF \A n \in 1..Len(path) : path[n] # PathSeparator
    THEN <<path>>
    ELSE LET n == CHOOSE k \in 1..Len(path) :
                      path[k] = PathSeparator /\ \A m \in 1..(k - 1) : path[m] # PathSeparator
         IN  <<SubSeq(path, 1, n - 1)>> \o SplitPath(SubSeq(path, n + 1, Len(path)))

\* filepath.Clean on the elements: empty elements and "." go, ".." takes the
\* element before it away, or stays when the path is not rooted and nothing is
\* left to take away.
RECURSIVE CleanElements(_, _, _)
CleanElements(elements, out, rooted) ==
    IF elements = <<>> THEN out
    ELSE LET e == Head(elements)
             rest == Tail(elements)
         IN  IF e = <<>> \/ e = <<".">>
             THEN CleanElements(rest, out, rooted)
             ELSE IF e = <<"..">>
             THEN IF Len(out) > 0 /\ out[Len(out)] # <<"..">>
                  THEN CleanElements(rest, SubSeq(out, 1, Len(out) - 1), rooted)
                  ELSE IF rooted
                  THEN CleanElements(rest, out, rooted)
                  ELSE CleanElements(rest, Append(out, e), rooted)
             ELSE CleanElements(rest, Append(out, e), rooted)

RECURSIVE JoinElements(_)
JoinElements(elements) ==
    IF elements = <<>> THEN <<>>
    ELSE IF Len(elements) = 1 THEN elements[1]
    ELSE elements[1] \o <<PathSeparator>> \o JoinElements(Tail(elements))

\* filepath.Clean
Clean(path) ==
    LET rooted == Len(path) > 0 /\ path[1] = PathSeparator
        elements == CleanElements(SplitPath(path), <<>>, rooted)
    IN  IF rooted THEN <<PathSeparator>> \o JoinElements(elements)
        ELSE IF elements = <<>> THEN <<".">>
        ELSE JoinElements(elements)

\* filepath.Join of two elements: the empty ones are dropped, the rest is
\* joined by the separator and cleaned.
Join(dir, path) ==
    IF dir = <<>> /\ path = <<>> THEN <<>>
    ELSE IF dir = <<>> THEN Clean(path)
    ELSE IF path = <<>> THEN Clean(dir)
    ELSE Clean(dir \o <<PathSeparator>> \o path)

\* buildDownloadDestination with the directory and the file name put one after
\* the other, without filepath.Join.
buildDownloadDestinationConcatenating(ref, destDir) ==
    destDir \o ReplaceAll(ref, "/", PathSeparator) \o <<".wasm">>

buildDownloadDestination(ref, destDir) ==
    Join(destDir, ReplaceAll(ref, "/", PathSeparator) \o <<".wasm">>)

\* settings.PoliciesDownloadDir
PoliciesDownloadDir == <<"/", "var", "/", "policies">>

\* The module references of the configuration documents.
Refs ==
    {<<"ghcr.io", "/", "kubewarden", "/", "pod-privileged:v0.1.9">>,
     <<"ghcr.io", "/", "kubewarden", "/", "psp-capabilities:v0.1.9">>}

-----------------------------------------------------------------------------
(* newPlugin, NewPolicy and DownloadWasmFromRegistry, step by step *)

MaxLayers == 2

\* The API servers that construct the plugin from the same configuration
\* document and the same download directory.
Controllers == {"first", "second"}

\* The destination of the module of a configured policy.
Dest(name) == buildDownloadDestination(settings[name], PoliciesDownloadDir)

\* A newPlugin call that has read the settings and is about to range over them.
Started ==
    [status |-> "running", pc |-> "range", remaining |-> DOMAIN settings,
     policies |-> <<>>, name |-> "", fetch |-> "none", network |-> FALSE,
     wrote |-> FALSE, layers |-> 1, racing |-> FALSE, path |-> <<>>]

\* The plugin of the main specification, before its registry is there.
PluginFresh ==
    /\ client = FALSE
    /\ recorder = FALSE
    /\ initState = "new"
    /\ settingsCalls = <<>>
    /\ validationErrors = <<>>
    /\ pc = "idle"
    /\ attr = [Kind |-> PodV1]
    /\ j = 0
    /\ relevantPolicies = <<>>
    /\ versionedAttrs = {}
    /\ conversions = <<>>
    /\ i = 0
    /\ calls = <<>>
    /\ marshalErr = FALSE
    /\ lastResult = NoResult
    /\ events = <<>>
    /\ decision = Pending
    /\ hooks = <<>>

\* Two API servers start on one configuration document; the download
\* directory holds the modules that earlier runs left there.
InitBuild ==
    /\ policies = <<>>
    /\ PluginFresh
    /\ \E n \in 0..MaxPolicies : settings \in [{AllNames[m] : m \in 1..n} -> Refs]
    /\ files \in [{buildDownloadDestination(ref, PoliciesDownloadDir) : ref \in Refs} ->
                    {"absent", "complete"}]
    /\ build = [c \in Controllers |-> Started]
    /\ inflight = <<>>
    /\ loading = <<>>

pluginVars == <<policies, client, recorder, initState, settingsCalls, validationErrors,
                requestVars, otherVars>>

\* newPlugin returns an error: no plugin.
Failed(b) == [b EXCEPT !.status = "failed", !.pc = "returned", !.policies = <<>>]

\* The range over settings.Policies yields its next entry, in no order that
\* the language defines, and NewPolicy calls DownloadWasmFromRegistry.
newPluginRange(c) ==
    /\ build[c].pc = "range"
    /\ \E name \in build[c].remaining :
         build' = [build EXCEPT ![c] =
                      [@ EXCEPT !.pc = "stat", !.name = name,
                                !.remaining = @ \ {name}, !.fetch = "none",
                                !.network = FALSE, !.wrote = FALSE, !.layers = 1,
                                !.racing = FALSE, !.path = <<>>]]
    /\ UNCHANGED <<pluginVars, settings, files>>

\* The range is over: generic.NewWebhook, and newPlugin returns.
newPluginReturn(c) ==
    /\ build[c].pc = "range"
    /\ build[c].remaining = {}
    /\ \E webhookErr \in BOOLEAN :
         build' = [build EXCEPT ![c] =
                      IF webhookErr THEN Failed(@)
                      ELSE [@ EXCEPT !.status = "ok", !.pc = "returned"]]
    /\ UNCHANGED <<pluginVars, settings, files>>

\* DownloadStat without the look at the disk: every fetch goes to the registry.
DownloadStatUncached(c) ==
    /\ build[c].pc = "stat"
    /\ build' = [build EXCEPT ![c] = [@ EXCEPT !.pc = "copy"]]
    /\ UNCHANGED <<pluginVars, settings, files>>

\* os.Stat(dest): a file that is there is returned as it is.
DownloadStat(c) ==
    /\ build[c].pc = "stat"
    /\ build' = [build EXCEPT ![c] =
                    IF files[Dest(@.name)] # "absent"
                    THEN [@ EXCEPT !.pc = "load", !.fetch = "hit",
                                   !.path = Dest(build[c].name),
                                   !.racing =
                                       \E o \in Controllers \ {c} :
                                           /\ build[o].pc = "close"
                                           /\ Dest(build[o].name) = Dest(build[c].name)]
                    ELSE [@ EXCEPT !.pc = "copy"]]
    /\ UNCHANGED <<pluginVars, settings, files>>

\* What contacting the registry comes to: oras.Copy fails, the manifest is not
\* in the store or does not decode, or it decodes and lists some layers, whose
\* data may be missing from the store.
CopyOutcomes ==
    {[err |-> e, layers |-> 1] : e \in {"copy failed", "no manifest", "bad manifest",
                                        "no layer data"}}
        \cup {[err |-> "", layers |-> n] : n \in 0..MaxLayers}

\* DownloadCopy taking the first layer of a manifest that lists several.
DownloadCopyFirstLayer(c) ==
    /\ build[c].pc = "copy"
    /\ \E outcome \in CopyOutcomes :
         build' = [build EXCEPT ![c] =
                      IF outcome.err # "" \/ outcome.layers = 0
                      THEN [Failed(@) EXCEPT !.network = TRUE, !.fetch = "error",
                                             !.layers = outcome.layers]
                      ELSE [@ EXCEPT !.pc = "write", !.network = TRUE,
                                     !.layers = outcome.layers]]
    /\ UNCHANGED <<pluginVars, settings, files>>

\* orascnt.NewRegistry to store.GetByName
DownloadCopy(c) ==
    /\ build[c].pc = "copy"
    /\ \E outcome \in CopyOutcomes :
         build' = [build EXCEPT ![c] =
                      IF outcome.err # "" \/ outcome.layers # 1
                      THEN [Failed(@) EXCEPT !.network = TRUE, !.fetch = "error",
                                             !.layers = outcome.layers]
                      ELSE [@ EXCEPT !.pc = "write", !.network = TRUE,
                                     !.layers = outcome.layers]]
    /\ UNCHANGED <<pluginVars, settings, files>>

\* os.MkdirAll, and os.WriteFile opening dest: the file is created, or
\* truncated when it is there.
DownloadWriteOpen(c) ==
    /\ build[c].pc = "write"
    /\ \E opened \in BOOLEAN :
         IF opened
         THEN /\ files' = [files EXCEPT ![Dest(build[c].name)] = "partial"]
              /\ build' = [build EXCEPT ![c] = [@ EXCEPT !.pc = "close", !.wrote = TRUE]]
         ELSE /\ build' = [build EXCEPT ![c] = [Failed(@) EXCEPT !.fetch = "error"]]
              /\ UNCHANGED files
    /\ UNCHANGED <<pluginVars, settings>>

\* os.WriteFile writes and closes: either all the bytes are in the file, or
\* the write failed and the file is left as it is.
DownloadWriteClose(c) ==
    /\ build[c].pc = "close"
    /\ \E written \in BOOLEAN :
         IF written
         THEN /\ files' = [files EXCEPT ![Dest(build[c].name)] = "complete"]
              /\ build' = [build EXCEPT ![c] =
                              [@ EXCEPT !.pc = "load", !.fetch = "downloaded",
                                        !.path = Dest(build[c].name)]]
         ELSE /\ build' = [build EXCEPT ![c] = [Failed(@) EXCEPT !.fetch = "error"]]
              /\ UNCHANGED files
    /\ UNCHANGED <<pluginVars, settings>>

\* NewPolicyLoad with newPlugin going on to the next entry when a module does
\* not load.
NewPolicyLoadSkipping(c) ==
    /\ build[c].pc = "load"
    /\ \E loaded \in BOOLEAN :
         build' = [build EXCEPT ![c] =
                      IF loaded /\ files[Dest(@.name)] = "complete"
                      THEN [@ EXCEPT !.pc = "range", !.policies = Append(@, build[c].name)]
                      ELSE [@ EXCEPT !.pc = "range"]]
    /\ UNCHANGED <<pluginVars, settings, files>>

\* NewPolicy after the download: os.ReadFile, engine.New, module.Instantiate;
\* bytes that are not the whole module do not load.
NewPolicyLoad(c) ==
    /\ build[c].pc = "load"
    /\ \E loaded \in BOOLEAN :
         build' = [build EXCEPT ![c] =
                      IF loaded /\ files[Dest(@.name)] = "complete"
                      THEN [@ EXCEPT !.pc = "range", !.policies = Append(@, build[c].name)]
                      ELSE Failed(@)]
    /\ UNCHANGED <<pluginVars, settings, files>>

NextBuild ==
    \E c \in Controllers :
        \/ newPluginRange(c)
        \/ newPluginReturn(c)
        \/ DownloadStat(c)
        \/ DownloadCopy(c)
        \/ DownloadWriteOpen(c)
        \/ DownloadWriteClose(c)
        \/ NewPolicyLoad(c)

SpecBuild == InitBuild /\ [][NextBuild]_vars

-----------------------------------------------------------------------------
(* Requests in flight at the same time: the API server calls Validate from  *)
(* one goroutine per request, on the registry of an initialized plugin.     *)

Goroutines == {"g1", "g2"}

\* A goroutine that is not inside Validate.
Idle == [pc |-> "idle", relevant |-> <<>>, i |-> 0, status |-> "Pending"]

\* Validate returned.
Returned(status) == [pc |-> "done", relevant |-> <<>>, i |-> 0, status |-> status]

\* The members of a set of registry positions, in registry order.
RECURSIVE InRegistryOrder(_)
InRegistryOrder(S) ==
    IF S = {} THEN <<>>
    ELSE LET first == CHOOSE n \in S : \A m \in S : n <= m
         IN  <<first>> \o InRegistryOrder(S \ {first})

\* An initialized plugin: its client is set and the settings of every policy
\* validated.
InitConcurrent ==
    /\ \E n \in 0..MaxPolicies :
         \E settingsPolicies \in [{AllNames[m] : m \in 1..n} -> PolicySpec] :
           \E order \in Orders(DOMAIN settingsPolicies), loopVar \in LoopVarSemantics :
             policies = newPlugin(settingsPolicies, order, loopVar)
    /\ client = TRUE
    /\ recorder = TRUE
    /\ initState = "ok"
    /\ settingsCalls =
          [n \in 1..Len(policies) |->
              [policy |-> policies[n].Name, settings |-> policies[n].Settings,
               instance |-> policies[n].Instance,
               returned |-> "valid"]]
    /\ validationErrors = <<>>
    /\ pc = "idle"
    /\ attr = [Kind |-> PodV1]
    /\ j = 0
    /\ relevantPolicies = <<>>
    /\ versionedAttrs = {}
    /\ conversions = <<>>
    /\ hooks = <<>>
    /\ i = 0
    /\ calls = <<>>
    /\ marshalErr = FALSE
    /\ lastResult = NoResult
    /\ events = <<>>
    /\ decision = Pending
    /\ settings = <<>>
    /\ files = <<>>
    /\ build = <<>>
    /\ loading = <<>>
    /\ inflight = [g \in Goroutines |-> Idle]

concurrentVars ==
    <<policies, client, recorder, initState, settingsCalls, validationErrors,
      requestVars, settings, files, build, loading>>

\* A goroutine enters Validate and goes through the loop over p.policies, which
\* works on its own relevantPolicies and versionedAttrs: a status error or a
\* failed conversion returns, no match returns nil.
GoValidateMatch(g) ==
    /\ inflight[g].pc \in {"idle", "done"}
    /\ \E a \in [Kind : RequestKinds],
          hook \in [1..Len(policies) -> {"nil", "invocation", "error"}],
          converted \in BOOLEAN :
         LET matched == {n \in 1..Len(policies) : hook[n] = "invocation"}
         IN  inflight' =
                [inflight EXCEPT ![g] =
                    IF \E n \in 1..Len(policies) : hook[n] = "error" THEN Returned("Rejected")
                    ELSE IF matched # {} /\ ~converted THEN Returned("Rejected")
                    ELSE IF matched = {} THEN Returned("Allowed")
                    ELSE [pc |-> "eval", relevant |-> InRegistryOrder(matched), i |-> 0,
                          status |-> "Pending"]]
    /\ UNCHANGED concurrentVars

\* The goroutine builds the ValidationRequest of its next matched policy and
\* calls policy.Validate, which enters p.instance.Invoke.
GoInvoke(g) ==
    /\ inflight[g].pc = "eval"
    /\ \E marshalFails \in BOOLEAN :
         inflight' =
            [inflight EXCEPT ![g] =
                IF marshalFails THEN Returned("Rejected")
                ELSE [@ EXCEPT !.pc = "invoking"]]
    /\ UNCHANGED concurrentVars

\* p.instance.Invoke returns and Validate goes on: an error or a response that
\* does not accept returns, the end of the loop returns nil.
GoInvokeReturn(g) ==
    /\ inflight[g].pc = "invoking"
    /\ \E result \in InvokeResults :
         LET running == inflight[g]
             policy == policies[running.relevant[running.i + 1]]
             response == PolicyValidate(policy, result)
         IN  inflight' =
                [inflight EXCEPT ![g] =
                    IF response.err # NoError \/ ~response.vr.Accepted
                    THEN Returned("Rejected")
                    ELSE IF running.i + 1 = Len(running.relevant) THEN Returned("Allowed")
                    ELSE [running EXCEPT !.pc = "eval", !.i = running.i + 1]]
    /\ UNCHANGED concurrentVars

NextConcurrent ==
    \E g \in Goroutines :
        \/ GoValidateMatch(g)
        \/ GoInvoke(g)
        \/ GoInvokeReturn(g)

SpecConcurrent == InitConcurrent /\ [][NextConcurrent]_vars

-----------------------------------------------------------------------------
(* newSettings: the configuration document, its defaults, and the download  *)
(* destinations of its modules                                              *)

\* A pointer field: nil, or the address of a value.
Nil == <<>>
Ptr(v) == <<v>>

\* metav1.LabelSelector by the labels it asks for; the empty one matches all.
EmptyLabelSelector == {}

\* What yaml.Unmarshal leaves in the pointer fields of a PolicySpec: nil for a
\* field the document does not set, the address of the value for one it sets.
UnmarshalledSpecs ==
    [Module : Refs \cup
              {<<"ghcr.io", "/", "kubewarden", "/", "..", "/", "kubewarden", "/",
                 "pod-privileged:v0.1.9">>},
     Mode : {Nil, Ptr(PolicyModeMonitor)},
     FailurePolicy : {Nil, Ptr("Ignore")},
     MatchPolicy : {Nil, Ptr("Exact")},
     NamespaceSelector : {Nil, Ptr({"environment"})},
     ObjectSelector : {Nil, Ptr({"tier"})}]

\* The values of policiesDownloadDir in the configuration documents.
DownloadDirs ==
    {<<"/", "tmp">>, <<"/", "data", "/", "policies", "/">>, PoliciesDownloadDir}

\* The names of the policies of the configuration documents.
LoadedNames == {"alpha", "beta"}

\* PolicySpec.Defaults with every field set to its default, configured or not.
DefaultsOverwriting(p) ==
    [p EXCEPT !.Mode = Ptr(PolicyModeProtect),
              !.FailurePolicy = Ptr("Fail"),
              !.MatchPolicy = Ptr("Equivalent"),
              !.NamespaceSelector = Ptr(EmptyLabelSelector),
              !.ObjectSelector = Ptr(EmptyLabelSelector)]

\* PolicySpec.Defaults
Defaults(p) ==
    [p EXCEPT !.Mode = IF @ = Nil THEN Ptr(PolicyModeProtect) ELSE @,
              !.FailurePolicy = IF @ = Nil THEN Ptr("Fail") ELSE @,
              !.MatchPolicy = IF @ = Nil THEN Ptr("Equivalent") ELSE @,
              !.NamespaceSelector = IF @ = Nil THEN Ptr(EmptyLabelSelector) ELSE @,
              !.ObjectSelector = IF @ = Nil THEN Ptr(EmptyLabelSelector) ELSE @]

\* newSettings after yaml.Unmarshal, about to range over settings.Policies.
InitLoad ==
    /\ policies = <<>>
    /\ PluginFresh
    /\ settings = <<>>
    /\ files = <<>>
    /\ build = <<>>
    /\ inflight = <<>>
    /\ \E names \in SUBSET LoadedNames, dir \in DownloadDirs :
         \E unmarshalled \in [names -> UnmarshalledSpecs] :
           loading = [pc |-> "range",
                      PoliciesDownloadDir |-> dir,
                      unmarshalled |-> unmarshalled,
                      Policies |-> unmarshalled,
                      remaining |-> names,
                      again |-> FALSE,
                      destinations |-> <<>>]

\* The range over settings.Policies yields an entry, in no order that the
\* language defines: Defaults on the copy, and the copy is stored back.
newSettingsRange ==
    /\ loading.pc = "range"
    /\ \E name \in loading.remaining :
         loading' = [loading EXCEPT !.Policies[name] = Defaults(@),
                                    !.remaining = @ \ {name}]
    /\ UNCHANGED <<policies, client, recorder, initState, settingsCalls, validationErrors,
                   requestVars, inflight, settings, files, build>>

\* newSettings returns the settings.
newSettingsReturn ==
    /\ loading.pc = "range"
    /\ loading.remaining = {}
    /\ loading' = [loading EXCEPT !.pc = "loaded"]
    /\ UNCHANGED <<policies, client, recorder, initState, settingsCalls, validationErrors,
                   requestVars, inflight, settings, files, build>>

\* Defaults on every spec of the loaded settings, once more.
DefaultsAgain ==
    /\ loading.pc = "loaded"
    /\ ~loading.again
    /\ loading' = [loading EXCEPT
                      !.Policies = [name \in DOMAIN @ |-> Defaults(@[name])],
                      !.again = TRUE]
    /\ UNCHANGED <<policies, client, recorder, initState, settingsCalls, validationErrors,
                   requestVars, inflight, settings, files, build>>

\* The destinations DownloadWasmFromRegistry derives for the modules of the
\* loaded settings.
DownloadDestinations ==
    /\ loading.pc = "loaded"
    /\ loading.destinations = <<>>
    /\ loading.Policies # <<>>
    /\ loading' = [loading EXCEPT
                      !.destinations =
                          [name \in DOMAIN loading.Policies |->
                              buildDownloadDestination(loading.Policies[name].Module,
                                                       loading.PoliciesDownloadDir)]]
    /\ UNCHANGED <<policies, client, recorder, initState, settingsCalls, validationErrors,
                   requestVars, inflight, settings, files, build>>

NextLoad ==
    \/ newSettingsRange
    \/ newSettingsReturn
    \/ DefaultsAgain
    \/ DownloadDestinations

SpecLoad == InitLoad /\ [][NextLoad]_vars

-----------------------------------------------------------------------------
(* Vocabulary of the properties *)

\* The name of the k-th matched policy, in match order.
RelevantName(k) == policies[relevantPolicies[k].policy].Name

\* The registered policy of a name.
PolicyNamed(name) == policies[CHOOSE n \in 1..Len(policies) : policies[n].Name = name]

\* How often the validate export of a policy was invoked for the request.
InvocationCount(name) == Cardinality({n \in 1..Len(calls) : calls[n].policy = name})

\* The text of the decision holds this token.
Mentions(d, token) == \E n \in 1..Len(d.message) : d.message[n] = token

\* The decision blames this policy and no other one.
Attributes(d, name) ==
    /\ Mentions(d, name)
    /\ \A n \in 1..Len(policies) : policies[n].Name # name => ~Mentions(d, policies[n].Name)

\* The match loop went through every registered policy.
MatchCompleted == pc \in {"eval", "done"} /\ j = Len(policies)

\* The k-th matched policy is the first one to return accepted=false, it is in
\* protect mode, and the matched policies before it accepted.
FirstProtectRejection(k) ==
    /\ k <= Len(calls)
    /\ \A m \in 1..(k - 1) :
         calls[m].policy = RelevantName(m) /\ calls[m].returned = "accepted"
    /\ calls[k].policy = RelevantName(k)
    /\ calls[k].returned = "rejected"
    /\ PolicyNamed(RelevantName(k)).Mode = PolicyModeProtect

\* The ways an invocation of a policy fails: the sandbox reports a fault (a
\* trap, a missing export), or the returned bytes do not decode.
FailedReturns == {"fault", "malformed"}

-----------------------------------------------------------------------------
(* Properties *)

\* C1: when the k-th matched policy is the first to return accepted=false, in
\* protect mode, Validate returns Rejected blaming that policy, and the matched
\* policies after it are not invoked for the request.
C1_FirstRejectionShortCircuits ==
    \A k \in 1..Len(relevantPolicies) :
        FirstProtectRejection(k) =>
            /\ pc = "done"
            /\ decision.status = "Rejected"
            /\ Attributes(decision, RelevantName(k))
            /\ Mentions(decision, " rejection: ")
            /\ \A m \in (k + 1)..Len(relevantPolicies) : InvocationCount(RelevantName(m)) = 0

\* C1 happens: the first of two matched policies rejected in protect mode.
C1_Witness ==
    /\ pc = "done"
    /\ Len(relevantPolicies) = 2
    /\ FirstProtectRejection(1)

\* C1 happens a second way: the second matched policy rejected after the first
\* one accepted.
C1_WitnessSecond == pc = "done" /\ FirstProtectRejection(2)

C3_NoMatchAllowed ==
    (pc = "done" /\ MatchCompleted /\ Len(relevantPolicies) = 0) =>
        /\ decision = Allowed
        /\ calls = <<>>
        /\ events = <<>>

\* C3 happens: two policies are registered and neither matched the request.
C3_Witness ==
    /\ pc = "done"
    /\ MatchCompleted
    /\ Len(policies) = 2
    /\ Len(relevantPolicies) = 0

\* C4: when every matched policy returns accepted=true without an error,
\* Validate returns Allowed, having invoked each matched policy exactly once.
C4_AllAcceptAllowed ==
    (/\ MatchCompleted
     /\ Len(relevantPolicies) > 0
     /\ \A k \in 1..Len(relevantPolicies) :
          \E n \in 1..Len(calls) :
             calls[n].policy = RelevantName(k) /\ calls[n].returned = "accepted") =>
        /\ pc = "done"
        /\ decision = Allowed
        /\ Len(calls) = Len(relevantPolicies)
        /\ \A k \in 1..Len(relevantPolicies) : InvocationCount(RelevantName(k)) = 1

\* C4 happens: two matched policies accepted.
C4_Witness ==
    /\ pc = "done"
    /\ Len(relevantPolicies) = 2
    /\ Len(calls) = 2
    /\ \A k \in 1..2 : calls[k].policy = RelevantName(k) /\ calls[k].returned = "accepted"

C6_IgnoreFailurePolicyHonoured ==
    \A k \in 1..Len(calls) :
        calls[k].returned \in FailedReturns =>
            IF PolicyNamed(calls[k].policy).FailurePolicy = "Ignore"
            THEN ~(decision.status = "Rejected" /\ Mentions(decision, calls[k].policy))
            ELSE decision.status = "Rejected"

\* C7: when a policy returns accepted=false with a message and a code, the
\* Rejected decision carries the policy's name, that message and that code.
C7_RejectionCarriesMessageAndCode ==
    (/\ pc = "done"
     /\ Len(calls) > 0
     /\ calls[Len(calls)].returned = "rejected"
     /\ lastResult.data.message.t = "string"
     /\ lastResult.data.code.t = "number") =>
        /\ decision.status = "Rejected"
        /\ Mentions(decision, calls[Len(calls)].policy)
        /\ Mentions(decision, lastResult.data.message.s)
        /\ decision.code = lastResult.data.code.n

\* The versioned kind the last invoked policy was matched under.
LastKind ==
    relevantPolicies[CHOOSE n \in 1..Len(relevantPolicies) :
                        RelevantName(n) = calls[Len(calls)].policy].Kind

\* The message the last response decodes to.
LastMessage ==
    IF lastResult.data.form = "object" /\ lastResult.data.message.t = "string"
    THEN lastResult.data.message.s ELSE ""

\* The request ended on the verdict of the last invoked policy: its response
\* decoded without error to a ValidationResponse that is not accepted.
RejectedOnVerdict ==
    /\ pc = "done"
    /\ Len(calls) > 0
    /\ calls[Len(calls)].returned \in {"rejected", "no accepted"}

\* C8, as claimed: every request that ends Rejected, a policy having been
\* invoked for it, produces exactly one event, which carries the name of that
\* policy; a request that ends Allowed produces none.
C8_EveryRejectionOneEvent ==
    pc = "done" =>
        /\ (decision.status = "Rejected" /\ Len(calls) > 0) =>
              /\ Len(events) = 1
              /\ events[1].message[1] = calls[Len(calls)].policy
        /\ decision.status = "Allowed" => Len(events) = 0

\* C8, amended: a request that ends Rejected on a policy's verdict produces
\* exactly one event, keyed by the kind and the API version of the versioned
\* object and carrying the policy's name and the rejection message, and the
\* decision is the rejection all the same; a request rejected for any other
\* reason, and a request that is Allowed, produces no event.
C8_VerdictRejectionOneEvent ==
    IF RejectedOnVerdict
    THEN /\ Len(events) = 1
         /\ events[1].kind = LastKind.Kind
         /\ ParseGroupVersion(events[1].apiVersion) =
                [ok |-> TRUE, Group |-> LastKind.Group, Version |-> LastKind.Version]
         /\ events[1].message = <<calls[Len(calls)].policy, ": ", LastMessage>>
         /\ decision.status = "Rejected"
         /\ Attributes(decision, calls[Len(calls)].policy)
    ELSE events = <<>>

\* C8 happens: a request for a pod, of the core group, was rejected on a
\* verdict and the event is there.
C8_Witness ==
    /\ RejectedOnVerdict
    /\ attr.Kind = PodV1
    /\ Len(events) = 1

\* C8 happens for a converted request: the policy was matched under another
\* version than the request's.
C8_WitnessConverted ==
    /\ RejectedOnVerdict
    /\ LastKind # attr.Kind
    /\ Len(events) = 1

\* C9: a rejection caused by an invocation error is classified as an internal
\* error, names the policy, and is not worded as the policy's own rejection.
C9_InvocationErrorIsInternalError ==
    (/\ pc = "done"
     /\ Len(calls) > 0
     /\ calls[Len(calls)].returned \in FailedReturns) =>
        /\ decision.status = "Rejected"
        /\ decision.reason = "InternalError"
        /\ Mentions(decision, calls[Len(calls)].policy)
        /\ ~Mentions(decision, " rejection: ")

\* C10: a response that is a JSON object without an accepted field is an
\* invocation error, neither a rejection of the policy nor an acceptance; a
\* response with a boolean accepted decodes without error when message, code
\* and mutated object are absent.
C10_AcceptedIsRequired ==
    (pc = "done" /\ Len(calls) > 0 /\ lastResult.data.form = "object") =>
        /\ lastResult.data.accepted = Absent =>
              /\ decision.status = "Rejected"
              /\ Mentions(decision, "Error evaluating Wasm policy ")
              /\ ~Mentions(decision, " rejection: ")
              /\ events = <<>>
        /\ (/\ lastResult.data.accepted.t = "bool"
            /\ lastResult.data.message = Absent
            /\ lastResult.data.code = Absent
            /\ lastResult.data.mutated_object = Absent) =>
              ~Mentions(decision, "Error evaluating Wasm policy ")


\* The ValidationRequest of the last invoked policy.
LastRequest ==
    kubewardenValidationRequest(
        CreateAdmissionObjects(LastKind, PolicyNamed(calls[Len(calls)].policy).AdmissionReviewVersions),
        PolicyNamed(calls[Len(calls)].policy), FALSE)

\* What Validate would have returned to the caller had the last invocation
\* come back with this other result.
DecisionOn(other) ==
    Verdict(attr, PolicyNamed(calls[Len(calls)].policy), LastRequest,
            PolicyValidate(PolicyNamed(calls[Len(calls)].policy), other), recorder).decision

\* C11: the response the caller gets for an invocation error does not depend on
\* the error detail of the sandbox: had the module failed with another fault
\* text, or returned other bytes that do not decode, the decision would be the
\* same, and it does not quote the fault text.
C11_InvocationErrorResponseIsGeneric ==
    (/\ pc = "done"
     /\ Len(calls) > 0
     /\ calls[Len(calls)].returned \in FailedReturns) =>
        /\ \A other \in InvokeResults :
             Observe(other) \in FailedReturns => decision = DecisionOn(other)
        /\ \A fault \in Faults : ~Mentions(decision, fault)


\* C12: every payload sent to a policy, the settings of its validate request
\* and the body of its validate_settings call, holds the settings document
\* configured for that policy and not the one of another policy.
C12_PayloadCarriesOwnSettings ==
    /\ \A n \in 1..Len(calls) : calls[n].settings = SettingsOf(calls[n].policy)
    /\ \A n \in 1..Len(settingsCalls) :
         settingsCalls[n].settings = SettingsOf(settingsCalls[n].policy)


\* C13: the order in which policies are evaluated is deterministic: two
\* controllers built from the same configuration document hold the policies in
\* the same order, the order Validate goes through them in, so both blame the
\* same policy for a rejection.
C13_RegistryOrderIsDeterministic ==
    \A c, o \in Controllers :
        (build[c].status = "ok" /\ build[o].status = "ok") =>
            build[c].policies = build[o].policies


\* How often the validate_settings export of a policy was invoked.
SettingsInvocationCount(called, name) ==
    Cardinality({n \in 1..Len(called) : called[n].policy = name})

\* ValidateInitialization went through every registered policy, once each,
\* and failed exactly when the settings of some policy did not validate.
ValidatedAll(called, state) ==
    /\ Len(called) = Len(policies)
    /\ \A n \in 1..Len(policies) : SettingsInvocationCount(called, policies[n].Name) = 1
    /\ state = "failed" <=> \E n \in 1..Len(called) : called[n].returned # "valid"

\* C14, as claimed: ValidateInitialization invokes the settings validation of
\* every registered policy exactly once, and returns an error if and only if
\* one of these calls failed or answered that the settings are not valid.
C14_EveryPolicyValidatedOnce ==
    initState # "new" => ValidatedAll(settingsCalls, initState)

\* C14, amended: with the client set, ValidateInitialization invokes the
\* settings validation of every registered policy exactly once, also after an
\* earlier policy failed, and returns an error if and only if one of them
\* failed or answered not valid; without the client it returns an error and
\* invokes none.
C14_ClientSetEveryPolicyValidatedOnce ==
    [][(initState = "new" /\ initState' # "new") =>
          IF client
          THEN ValidatedAll(settingsCalls', initState')
          ELSE settingsCalls' = <<>> /\ initState' = "failed"]_vars

\* C14 happens: the settings of the first of two policies did not validate and
\* the second one was asked all the same.
C14_Witness ==
    /\ initState = "failed"
    /\ Len(settingsCalls) = 2
    /\ settingsCalls[1].returned # "valid"
    /\ settingsCalls[2].returned = "valid"


\* The settings of every registered policy were validated and found valid.
SettingsValidated ==
    /\ Len(settingsCalls) = Len(policies)
    /\ \A n \in 1..Len(policies) :
         settingsCalls[n].policy = policies[n].Name /\ settingsCalls[n].returned = "valid"

\* C15: settings validation comes before any request and fails closed: a
\* request is only evaluated, and a validate export only invoked, by a
\* controller whose settings validation completed successfully, and a
\* controller whose validation failed never evaluates a request nor returns
\* a decision.
C15_ValidationBeforeRequests ==
    /\ (pc # "idle" \/ calls # <<>> \/ decision # Pending) =>
            Initialized /\ SettingsValidated
    /\ (initState = "failed" \/ ~SettingsValidated) =>
            pc = "idle" /\ calls = <<>> /\ decision = Pending

\* C15 happens: a controller with two validated policies has evaluated a
\* request and invoked a policy.
C15_Witness ==
    /\ Len(policies) = 2
    /\ SettingsValidated
    /\ pc = "done"
    /\ Len(calls) > 0

\* C15 happens the other way: the settings of a policy did not validate and
\* the controller stays without requests.
C15_WitnessFailed ==
    /\ initState = "failed"
    /\ Len(validationErrors) > 0
    /\ pc = "idle"


\* The names of the policies a newPlugin call has appended.
BuiltNames(c) == {build[c].policies[n] : n \in 1..Len(build[c].policies)}

\* C16: registry construction is all or nothing: when fetching, loading or
\* instantiating one configured policy fails, newPlugin returns an error and
\* no controller; a controller that newPlugin returned holds every configured
\* policy, once.
C16_ConstructionAllOrNothing ==
    \A c \in Controllers :
        /\ build[c].status = "ok" =>
              /\ BuiltNames(c) = DOMAIN settings
              /\ Len(build[c].policies) = Cardinality(DOMAIN settings)
        /\ build[c].fetch = "error" => build[c].status = "failed"
        /\ build[c].status = "failed" => build[c].pc = "returned" /\ build[c].policies = <<>>

\* C16 happens: the module of the second of two configured policies could not
\* be fetched or loaded after the first one was, and there is no controller.
C16_Witness ==
    \E c \in Controllers :
        /\ build[c].status = "failed"
        /\ Cardinality(DOMAIN settings) = 2
        /\ build[c].remaining = {}
        /\ build[c].fetch = "error"

\* C16 happens the other way: a controller with both configured policies.
C16_WitnessBuilt ==
    \E c \in Controllers : build[c].status = "ok" /\ Len(build[c].policies) = 2


\* The fetch a controller is in, or was in last, returned a path.
Fetched(c) == build[c].fetch \in {"hit", "downloaded"}

\* C17: whenever the destination file exists, the fetch returns it without
\* contacting the registry, a fetch that succeeded leaves the file there and
\* nothing takes it away, so a second fetch of the same reference into the
\* same directory returns the same path, the one derived from the reference,
\* without network access.
C17_SecondFetchIsCacheHit ==
    [][\A c \in Controllers :
          /\ (/\ build[c].pc = "stat"
              /\ build'[c].pc # "stat"
              /\ files[Dest(build[c].name)] # "absent") =>
                 /\ build'[c].fetch = "hit"
                 /\ build'[c].pc = "load"
                 /\ ~build'[c].network
                 /\ build'[c].path = Dest(build[c].name)
                 /\ files' = files
          /\ build[c].fetch = "hit" => ~build'[c].network \/ build'[c].fetch # "hit"
          /\ (build'[c].fetch # build[c].fetch /\ Fetched(c)') =>
                 /\ build'[c].path =
                        buildDownloadDestination(settings[build[c].name], PoliciesDownloadDir)
                 /\ files'[build'[c].path] # "absent"
          /\ \A path \in DOMAIN files : files[path] # "absent" => files'[path] # "absent"]_vars

\* C17 happens: one controller downloaded a module and the other, fetching the
\* same reference afterwards as its first one, found the file.
C17_Witness ==
    \E c, o \in Controllers :
        /\ c # o
        /\ build[o].fetch = "downloaded"
        /\ build[c].fetch = "hit"
        /\ build[c].pc = "load"
        /\ build[c].policies = <<>>
        /\ ~build[c].racing
        /\ ~build[c].network
        /\ build[c].path = build[o].path


\* C18: a fetch whose manifest does not list exactly one layer returns an
\* error and writes no file: the step that reads the manifest leaves the
\* download directory as it is, the fetch has not opened the destination, and
\* its caller has returned and does nothing more.
C18_LayerCountNotOneWritesNothing ==
    /\ [](\A c \in Controllers :
             build[c].layers # 1 =>
                 /\ build[c].fetch = "error"
                 /\ build[c].path = <<>>
                 /\ ~build[c].wrote
                 /\ build[c].pc = "returned")
    /\ [][\A c \in Controllers :
             /\ (build[c].pc = "copy" /\ build'[c].layers # 1) => files' = files
             /\ build[c].pc = "returned" => build'[c] = build[c]]_vars

\* C18 happens: the manifest listed no layer, the fetch failed and the
\* destination, absent before, is absent.
C18_Witness ==
    \E c \in Controllers :
        /\ build[c].layers = 0
        /\ build[c].fetch = "error"
        /\ files[Dest(build[c].name)] = "absent"

\* C18 happens with a manifest of several layers.
C18_WitnessSeveral ==
    \E c \in Controllers :
        /\ build[c].layers > 1
        /\ build[c].fetch = "error"
        /\ files[Dest(build[c].name)] = "absent"


\* A controller is between the opening and the closing of this file by
\* os.WriteFile.
BeingWritten(path) ==
    \E o \in Controllers : build[o].pc = "close" /\ Dest(build[o].name) = path

\* A controller is fetching the module of this destination from the registry:
\* it found no file and has not returned from the download.
Downloading(c, path) ==
    /\ build[c].pc \in {"copy", "write", "close"}
    /\ Dest(build[c].name) = path

\* C19: a fetch that fails, also part-way through writing, leaves no partial
\* file that passes for the artifact: a file returned as a cache hit, no write
\* of it being under way, holds the complete layer.
C19_FailedFetchLeavesNoPartialFile ==
    \A c \in Controllers :
        (build[c].fetch = "hit" /\ ~BeingWritten(build[c].path)) =>
            files[build[c].path] = "complete"

\* C20: concurrent first fetches of one reference into one directory are
\* serialized: no two of them download and write the file together, and no
\* fetch returns the path as a cache hit while the write of another one is
\* under way.
C20_ConcurrentFetchesSerialized ==
    \A c \in Controllers :
        /\ \A o \in Controllers \ {c}, path \in DOMAIN files :
             ~(Downloading(c, path) /\ Downloading(o, path))
        /\ build[c].fetch = "hit" => ~build[c].racing


-----------------------------------------------------------------------------
(* Concurrent requests and instances *)

\* The policy whose instance a goroutine is inside, as a set: empty when the
\* goroutine is not inside instance.Invoke.
Invoking(g) ==
    IF inflight[g].pc = "invoking"
    THEN {policies[inflight[g].relevant[inflight[g].i + 1]].Name}
    ELSE {}

\* C21: when several requests are evaluated at the same time, at no time are
\* two invocations of the instance of one policy in progress together.
C21_InvocationsSerialized ==
    \A g, h \in Goroutines : g # h => Invoking(g) \cap Invoking(h) = {}


\* The instances module.Instantiate made at construction, one per call of
\* NewPolicy.
Instances == {policies[n].Instance : n \in 1..Len(policies)}

\* The instances that validate and validate_settings were invoked on for a
\* policy.
InstancesInvoked(name) ==
    {calls[n].instance : n \in {m \in 1..Len(calls) : calls[m].policy = name}}
        \cup {settingsCalls[n].instance :
                n \in {m \in 1..Len(settingsCalls) : settingsCalls[m].policy = name}}

\* C22: each policy has one instance of its own, made at construction: as many
\* instances as policies, and every validate and validate_settings call of a
\* policy goes to the instance of that policy, whatever requests came before.
C22_OneInstancePerPolicy ==
    /\ Cardinality(Instances) = Len(policies)
    /\ \A n \in 1..Len(policies) :
         InstancesInvoked(policies[n].Name) \subseteq {policies[n].Instance}

\* Two policies, both validated at startup and both invoked for a request.
C22_Witness ==
    /\ Len(policies) = 2
    /\ Len(calls) = 2
    /\ \A n \in 1..2 : InstancesInvoked(policies[n].Name) = {policies[n].Instance}


-----------------------------------------------------------------------------
(* The two loops of Validate *)

\* The versions (group, version, kind) the matched policies were matched under.
MatchedKinds == {relevantPolicies[k].Kind : k \in 1..Len(relevantPolicies)}

\* C23: within one request the object is converted once per distinct version
\* that a policy matched under, and every invoked policy is handed the object
\* in the version it matched under, which is one of the converted ones.
C23_OneConversionPerMatchedVersion ==
    /\ Len(conversions) = Cardinality(MatchedKinds)
    /\ {conversions[n] : n \in 1..Len(conversions)} = MatchedKinds
    /\ \A n \in 1..Len(calls) :
         /\ calls[n].request.Kind = relevantPolicies[n].Kind
         /\ calls[n].request.Kind \in versionedAttrs

\* Two policies matched under one version and both were invoked after the one
\* conversion.
C23_Witness ==
    /\ Len(relevantPolicies) = 2
    /\ relevantPolicies[1].Kind = relevantPolicies[2].Kind
    /\ Len(conversions) = 1
    /\ Len(calls) = 2

\* Two policies matched under two versions: two conversions.
C23_WitnessTwoVersions ==
    /\ Len(relevantPolicies) = 2
    /\ relevantPolicies[1].Kind # relevantPolicies[2].Kind
    /\ Len(conversions) = 2
    /\ Len(calls) = 2


\* Validate is at work on a request.
InValidate == pc \in {"match", "eval"}

\* A bound on the steps Validate has left: the iterations of the two loops and
\* the step between them.
StepsLeft ==
    IF pc = "match" THEN 2 * Len(policies) + 1 - j
    ELSE IF pc = "eval" THEN Len(relevantPolicies) - i
    ELSE 0

\* C24: a request goes from matching to the evaluation of its matched policies
\* to one decision, allowed or rejected. While Validate is at work there is no
\* decision and a next step, and every step brings the end nearer, so every
\* request comes to its decision; it does so after at most as many invocations
\* as policies matched, the index of the evaluation never goes back, and once
\* the decision is there nothing is invoked for the request any more.
C24_RequestReachesOneDecision ==
    /\ [](/\ InValidate => decision = Pending
          /\ InValidate => ENABLED (ValidateMatch \/ ValidateMatched \/ ValidateEvaluate)
          /\ pc = "done" => decision.status \in {"Allowed", "Rejected"}
          /\ Len(calls) <= Len(relevantPolicies)
          /\ i <= Len(relevantPolicies))
    /\ [][/\ InValidate => StepsLeft' < StepsLeft /\ i' >= i
          /\ pc = "done" => pc' = "match" \/ (calls' = calls /\ decision' = decision)]_vars

\* A request that two policies matched was allowed after two invocations.
C24_Witness ==
    /\ pc = "done"
    /\ Len(relevantPolicies) = 2
    /\ Len(calls) = 2
    /\ i = 2
    /\ decision = Allowed

\* A request was rejected by the first of two matched policies.
C24_WitnessRejected ==
    /\ pc = "done"
    /\ Len(relevantPolicies) = 2
    /\ Len(calls) = 1
    /\ decision.status = "Rejected"


-----------------------------------------------------------------------------
(* Configuration *)

\* What a field holds once the configuration is loaded: the configured value,
\* or the default where the document sets none.
ConfiguredOr(field, default) == IF field = Nil THEN Ptr(default) ELSE field

\* C25: once the configuration is loaded every policy spec has mode,
\* failurePolicy, matchPolicy and the two selectors set, a field the document
\* sets to what it sets and any other one to its default (protect, Fail,
\* Equivalent, the empty selector); Defaults once more leaves all of it as it is.
C25_DefaultsAppliedOnLoad ==
    loading # <<>> /\ loading.pc = "loaded" =>
        \A name \in DOMAIN loading.Policies :
            LET spec == loading.Policies[name]
                configured == loading.unmarshalled[name]
            IN  /\ spec.Mode = ConfiguredOr(configured.Mode, PolicyModeProtect)
                /\ spec.FailurePolicy = ConfiguredOr(configured.FailurePolicy, "Fail")
                /\ spec.MatchPolicy = ConfiguredOr(configured.MatchPolicy, "Equivalent")
                /\ spec.NamespaceSelector =
                      ConfiguredOr(configured.NamespaceSelector, EmptyLabelSelector)
                /\ spec.ObjectSelector =
                      ConfiguredOr(configured.ObjectSelector, EmptyLabelSelector)
                /\ spec.Module = configured.Module
                /\ \A field \in {"Mode", "FailurePolicy", "MatchPolicy",
                                 "NamespaceSelector", "ObjectSelector"} : spec[field] # Nil

\* Defaults went a second time over a loaded spec that sets its mode and one
\* selector and leaves the rest to the defaults.
C25_Witness ==
    /\ loading # <<>>
    /\ loading.pc = "loaded"
    /\ loading.again
    /\ \E name \in DOMAIN loading.Policies :
         /\ loading.unmarshalled[name].Mode = Ptr(PolicyModeMonitor)
         /\ loading.unmarshalled[name].FailurePolicy = Nil
         /\ loading.unmarshalled[name].NamespaceSelector # Nil
         /\ loading.unmarshalled[name].ObjectSelector = Nil
         /\ loading.Policies[name].Mode = Ptr(PolicyModeMonitor)
         /\ loading.Policies[name].FailurePolicy = Ptr("Fail")


\* A directory written with and without a separator at its end.
EndsWithSeparator(dir) == Len(dir) > 0 /\ dir[Len(dir)] = PathSeparator

WithSeparator(dir) == IF EndsWithSeparator(dir) THEN dir ELSE dir \o <<PathSeparator>>

WithoutSeparator(dir) ==
    IF EndsWithSeparator(dir) /\ Len(dir) > 1 THEN SubSeq(dir, 1, Len(dir) - 1) ELSE dir

\* C26: the local path of a module is a function of its reference and the
\* download directory alone: the directory, a separator, the reference with
\* its separators as the platform's, and ".wasm", the same path whether the
\* directory is written with a separator at its end or without.
C26_DestinationFromReferenceAndDir ==
    loading # <<>> /\ loading.destinations # <<>> =>
        \A name \in DOMAIN loading.destinations :
            LET ref == loading.Policies[name].Module
                dir == loading.PoliciesDownloadDir
                dest == loading.destinations[name]
            IN  /\ dest = buildDownloadDestination(ref, WithSeparator(dir))
                /\ dest = buildDownloadDestination(ref, WithoutSeparator(dir))
                /\ dest[Len(dest)] = ".wasm"
                /\ ref \in Refs =>
                      dest = WithoutSeparator(dir) \o <<PathSeparator>>
                                \o ReplaceAll(ref, "/", PathSeparator) \o <<".wasm">>
                /\ \A other \in DOMAIN loading.destinations :
                      loading.Policies[other].Module = ref =>
                          loading.destinations[other] = dest

\* The destinations of two modules under a directory that the document writes
\* with a separator at its end.
C26_Witness ==
    /\ loading # <<>>
    /\ loading.destinations # <<>>
    /\ EndsWithSeparator(loading.PoliciesDownloadDir)
    /\ \E a, b \in DOMAIN loading.destinations :
         /\ loading.Policies[a].Module \in Refs
         /\ loading.Policies[b].Module \in Refs
         /\ loading.Policies[a].Module # loading.Policies[b].Module

\* The same under a directory written without one.
C26_WitnessWithout ==
    /\ loading # <<>>
    /\ loading.destinations # <<>>
    /\ ~EndsWithSeparator(loading.PoliciesDownloadDir)
    /\ \E a \in DOMAIN loading.destinations : loading.Policies[a].Module \in Refs


\* C27: the policies are immutable once the plugin is initialized: no step of
\* a request changes the registry, neither the list nor the name, the spec with
\* its settings, the hook or the instance of any policy in it.
C27_RequestsLeaveRegistryUnchanged ==
    [][Initialized => policies' = policies]_vars

\* A request was evaluated, and rejected, on an initialized registry of two
\* policies, one of them in monitor mode.
C27_Witness ==
    /\ Initialized
    /\ Len(policies) = 2
    /\ \E n \in 1..2 : policies[n].Mode = PolicyModeMonitor
    /\ pc = "done"
    /\ Len(calls) >= 1
    /\ decision.status = "Rejected"


\* C28: the matched policies are an order-preserving subsequence of the
\* registry, and the policies invoked so far are the first of the matched ones,
\* in that order.
C28_InvocationInRegistryOrder ==
    /\ \A k \in 1..Len(relevantPolicies) : relevantPolicies[k].policy \in 1..Len(policies)
    /\ \A k, m \in 1..Len(relevantPolicies) :
         k < m => relevantPolicies[k].policy < relevantPolicies[m].policy
    /\ Len(calls) <= Len(relevantPolicies)
    /\ \A n \in 1..Len(calls) : calls[n].policy = RelevantName(n)

\* Both policies of the registry matched and were invoked.
C28_Witness ==
    /\ Len(policies) = 2
    /\ Len(relevantPolicies) = 2
    /\ Len(calls) = 2
    /\ calls[1].policy = policies[1].Name
    /\ calls[2].policy = policies[2].Name

\* The match loop ended on a failure: a status error of ShouldCallHook or a
\* failed conversion.
MatchFailed == pc = "done" /\ j < Len(policies)

\* C29: the matching of all registered policies is over before any policy is
\* invoked; a match check or a conversion that fails, for however late a
\* policy, makes Validate return that error with no module invoked and no event
\* recorded for the request, the policies that matched before included.
C29_MatchingCompletesBeforeInvocation ==
    /\ pc = "eval" \/ Len(calls) > 0 => MatchCompleted /\ Len(hooks) = Len(policies)
    /\ MatchFailed =>
         /\ Len(calls) = 0
         /\ Len(events) = 0
         /\ i = 0
         /\ Len(hooks) = j + 1
         /\ IF hooks[j + 1] = "error" THEN decision = StatusError
            ELSE /\ hooks[j + 1] = "invocation"
                 /\ decision.reason = "InternalError"

\* The first policy matched and the match check of the second one failed.
C29_Witness ==
    /\ MatchFailed
    /\ j = 1
    /\ Len(relevantPolicies) = 1
    /\ hooks = <<"invocation", "error">>
    /\ decision = StatusError

\* The first policy matched and the conversion for the second one failed.
C29_WitnessConversion ==
    /\ MatchFailed
    /\ j = 1
    /\ Len(relevantPolicies) = 2
    /\ hooks = <<"invocation", "invocation">>
    /\ decision.reason = "InternalError"

\* The registry positions of the policies whose hook matched the request.
HookMatched == {n \in 1..Len(hooks) : hooks[n] = "invocation"}

\* C30: a policy whose hook does not match the request is not invoked for it,
\* and no policy is invoked more than once for it.
C30_OnlyMatchedPoliciesOnce ==
    /\ \A n \in 1..Len(calls) :
         \E m \in HookMatched : policies[m].Name = calls[n].policy
    /\ \A n \in 1..Len(policies) :
         /\ InvocationCount(policies[n].Name) <= 1
         /\ n \notin HookMatched => InvocationCount(policies[n].Name) = 0
    /\ \A n, m \in 1..Len(calls) : calls[n].instance = calls[m].instance => n = m

\* Of two policies the hook of the first did not match and the second was
\* invoked.
C30_Witness ==
    /\ pc = "done"
    /\ hooks = <<"nil", "invocation">>
    /\ InvocationCount(policies[1].Name) = 0
    /\ InvocationCount(policies[2].Name) = 1


\* C31: under one download directory two different module references never
\* have the same cache file: the derivation of the path, the cleaning that
\* filepath.Join does included, is injective on the references, so the file
\* found for a reference is the one written for it.
C31_DestinationInjectiveOnReferences ==
    loading # <<>> /\ loading.destinations # <<>> =>
        \A a, b \in DOMAIN loading.destinations :
            loading.Policies[a].Module # loading.Policies[b].Module =>
                loading.destinations[a] # loading.destinations[b]

=============================================================================
